---------------------------- MODULE Spec2Model ----------------------------
(***************************************************************************)
(* Model of the MCP9808 MicroPython driver (src/mcp9808.py) together with  *)
(* the sensor it talks to over I2C.                                        *)
(*                                                                         *)
(* Temperatures are held as integers counting sixteenths of a degree       *)
(* Celsius (the LSB of the temperature register), so that every float the  *)
(* driver computes from such a value is represented exactly.               *)
(***************************************************************************)
EXTENDS Integers, Sequences, FiniteSets, TLC

VARIABLES dev, obj, call, cycled

vars == <<dev, obj, call, cycled>>

(***************************************************************************)
(* Program constants (src/mcp9808.py:3-25).                                *)
(***************************************************************************)
HYST_00 == 0
HYST_15 == 1
HYST_30 == 2
HYST_60 == 3

RES_0_5 == 0
RES_0_25 == 1
RES_0_125 == 2
RES_0_0625 == 3

REG_CFG == 1
REG_ATU == 2
REG_ATL == 3
REG_ATC == 4
REG_TEM == 5
REG_MFR == 6
REG_DEV == 7
REG_RES == 8

\* One degree Celsius in the model's unit (lower = buf[1] / 16).
Deg == 16

(***************************************************************************)
(* Python integer operators on unbounded ints.  The right operand of & is  *)
(* always a non-negative mask in the driver; the left one may be negative  *)
(* (infinite two's complement), which % and \div (floor) reproduce.        *)
(***************************************************************************)
RECURSIVE AndBits(_, _)
AndBits(a, b) ==
    IF b = 0 THEN 0
    ELSE (a % 2) * (b % 2) + 2 * AndBits(a \div 2, b \div 2)

RECURSIVE OrBits(_, _)
OrBits(a, b) ==
    IF a = 0 THEN b
    ELSE IF b = 0 THEN a
    ELSE (IF (a % 2) + (b % 2) > 0 THEN 1 ELSE 0)
         + 2 * OrBits(a \div 2, b \div 2)

\* a & b.  The masks 1, 3 and 255 are taken directly (a remainder).
BitAnd(a, b) ==
    CASE b = 1 -> a % 2
      [] b = 3 -> a % 4
      [] b = 255 -> a % 256
      [] OTHER -> AndBits(a, b)

\* a | b
BitOr(a, b) == OrBits(a, b)

\* a << n
Shl(a, n) == a * 2 ^ n

\* a >> n
Shr(a, n) == a \div 2 ^ n

\* int(x) of the float x = num / den (den > 0): truncation toward zero.
Trunc(num, den) == IF num >= 0 THEN num \div den ELSE -((-num) \div den)

\* MicroPython bytearray item store: the value is truncated to 8 bits.
ByteStore(x) == x % 256

(***************************************************************************)
(* Python values: a class tag and a payload.  bool: 0/1; int: the integer; *)
(* float: sixteenths of a unit; str: a non-empty string.                   *)
(***************************************************************************)
PyBool(b) == [t |-> "bool", v |-> IF b THEN 1 ELSE 0]

PyInt(n) == [t |-> "int", v |-> n]

PyFloat(s) == [t |-> "float", v |-> s]

PyNone == [t |-> "NoneType", v |-> 0]

PyStr == [t |-> "str", v |-> 0]

\* A bound method object (what the attribute __debug of an instance is).
PyMethod == [t |-> "method", v |-> 0]

\* The numeric value of x in sixteenths (bool is a subclass of int).
Num(x) == IF x.t = "float" THEN x.v ELSE x.v * Deg

IsNumeric(x) == x.t \in {"bool", "int", "float"}

\* x == y
PyEq(x, y) ==
    IF IsNumeric(x) /\ IsNumeric(y) THEN Num(x) = Num(y) ELSE x = y

\* bool(x)
Truthy(x) ==
    CASE IsNumeric(x) -> x.v # 0
      [] x.t = "NoneType" -> FALSE
      [] OTHER -> TRUE

\* not x
PyNot(x) == PyBool(~Truthy(x))

\* x in [0, 1, 2, 3]
InEnum(x) == \E k \in {0, 1, 2, 3} : PyEq(x, PyInt(k))

\* x usable as an operand of <<, | and & (int or bool).
IsIntegral(x) == x.t \in {"bool", "int"}


(***************************************************************************)
(* The sensor.  dev maps a register address to the bytes it holds.  The    *)
(* alert status (bit 4 of the configuration register) and the interrupt    *)
(* clear bit (bit 5) are not stored: the first is whatever the comparator  *)
(* says when the register is read, the second reads 0.                     *)
(***************************************************************************)
Regs == REG_CFG .. REG_RES

\* Power-up contents (src/test.py, test_powerup_defaults), for the identity
\* registers mfr and did the device carries.
PowerUp(mfr, did) ==
    [r \in Regs |->
        CASE r = REG_MFR -> mfr
          [] r = REG_DEV -> did
          [] r = REG_RES -> <<RES_0_0625>>
          [] OTHER -> <<0, 0>>]

\* The settable fields of the configuration register: the byte each lies in
\* (1 for buf[0], 2 for buf[1]), the weight of its lowest bit and the number
\* of values it takes (the shifts and masks of lines 63-72 and 141-150).
Layout ==
    [hyst_mode |-> <<1, 2, 4>>, shdn |-> <<1, 1, 2>>,
     crit_lock |-> <<2, 128, 2>>, window_lock |-> <<2, 64, 2>>,
     alert_ctrl |-> <<2, 8, 2>>, alert_sel |-> <<2, 4, 2>>,
     alert_pol |-> <<2, 2, 2>>, alert_mode |-> <<2, 1, 2>>]

Settable == DOMAIN Layout

\* The bits of field f in the register bytes buf, in place.
Field(buf, f) ==
    ((buf[Layout[f][1]] \div Layout[f][2]) % Layout[f][3]) * Layout[f][2]

Locked(cfg) == Field(cfg, "crit_lock") # 0 \/ Field(cfg, "window_lock") # 0

\* The fields in which the bytes w ask for a change of the register o.
Changed(o, w) == {f \in Settable : Field(o, f) # Field(w, f)}

\* The register whose fields in take come from buf and the others from old.
Merge(old, buf, take) ==
    LET Bits(f) == Field(IF f \in take THEN buf ELSE old, f)
    IN  <<Bits("hyst_mode") + Bits("shdn"),
          Bits("crit_lock") + Bits("window_lock") + Bits("alert_ctrl")
          + Bits("alert_sel") + Bits("alert_pol") + Bits("alert_mode")>>

\* A configuration register that takes every field of a write.
DevWriteCfgPlain(old, buf, acc) == Merge(old, buf, Settable)

\* The configuration register after the bytes buf were written to it.  A set
\* lock bit stays set; with a lock set the alert output control is refused
\* (src/test.py, test_crit_lock and test_window_lock); which of the other
\* fields a locked device lets through the source does not say: acc.
DevWriteCfg(old, buf, acc) ==
    IF ~Locked(old)
    THEN Merge(old, buf, Settable)
    ELSE Merge(old, buf,
               {f \in acc : IF f \in {"crit_lock", "window_lock"}
                            THEN Field(old, f) = 0
                            ELSE f # "alert_ctrl"})

\* Whether the device takes a write to a limit register: it does while the
\* lock of that register (the critical lock for REG_ATC, the window lock for
\* REG_ATU and REG_ATL) is clear; with the lock set the write may be refused
\* (the readback check of lines 228-230) and the source does not say when.
LimitAccSets(d, reg) ==
    IF Field(d[REG_CFG], IF reg = REG_ATC THEN "crit_lock" ELSE "window_lock") # 0
    THEN {FALSE, TRUE}
    ELSE {TRUE}

\* A limit register after the write of buf, taken (acc) or refused.
DevWriteLimit(d, reg, buf, acc) == IF acc THEN buf ELSE d[reg]

\* writeto_mem on a bus that delivers the bytes.
DevWrite(d, reg, buf, acc) ==
    CASE reg = REG_CFG -> [d EXCEPT ![reg] = DevWriteCfg(d[reg], buf, acc)]
      [] reg \in {REG_ATU, REG_ATL, REG_ATC} ->
            [d EXCEPT ![reg] = DevWriteLimit(d, reg, buf, acc)]
      [] reg = REG_RES -> [d EXCEPT ![reg] = <<buf[1] % 4>>]
      [] OTHER -> d

\* What the alert status bit may read: the comparator's verdict (any value
\* in alerts) while the alert output is enabled, 0 while it is not
\* (src/test.py, test_powerup_defaults).
Comparator(d, alerts) ==
    IF Field(d[REG_CFG], "alert_ctrl") # 0 THEN alerts ELSE {0}

\* readfrom_mem on a bus that delivers the bytes; al is the alert status at
\* the time of the read.
DevRead(d, reg, n, al) ==
    IF reg = REG_CFG
    THEN <<d[reg][1], d[reg][2] + 16 * al>>
    ELSE SubSeq(d[reg], 1, n)

(***************************************************************************)
(* get_temeperature (lines 278-290), in sixteenths of a degree.            *)
(***************************************************************************)
\* The decode with the shifted upper byte left at full width.
GetTemperatureDecodeWide(buf) ==
    LET sign == BitAnd(buf[1], 16)
        upper == Shl(buf[1], 4)
        lower16 == BitAnd(buf[2], 255)
    IN  IF sign # 0
        THEN (upper * Deg + lower16) - 256 * Deg
        ELSE upper * Deg + lower16

GetTemperatureDecode(buf) ==
    LET sign == BitAnd(buf[1], 16)
        upper == BitAnd(Shl(buf[1], 4), 255)
        lower16 == BitAnd(buf[2], 255)
    IN  IF sign # 0
        THEN (upper * Deg + lower16) - 256 * Deg
        ELSE upper * Deg + lower16

\* get_alert_triggers (lines 292-302).
GetAlertTriggersDecode(buf) ==
    <<BitAnd(buf[1], 128) # 0, BitAnd(buf[1], 64) # 0, BitAnd(buf[1], 32) # 0>>

(***************************************************************************)
(* __set_alert_limit (lines 190-233): validation and encoding.             *)
(***************************************************************************)
LimitCheck(limit) ==
    IF limit.t \notin {"float", "int"} THEN "TypeError"
    ELSE IF Num(limit) < -128 * Deg \/ Num(limit) > 127 * Deg THEN "ValueError"
    ELSE "ok"

LimitOutsideOperational(limit) ==
    Num(limit) < -20 * Deg \/ Num(limit) > 100 * Deg

\* The integral byte taken from int(limit) for every limit.
LimitIntegralPlain(limit) == BitAnd(Trunc(Num(limit), Deg), 255)

LimitIntegral(limit) ==
    IF -1 * Deg < Num(limit) /\ Num(limit) < 0
    THEN 255
    ELSE BitAnd(Trunc(Num(limit), Deg), 255)

\* int((limit - integral) / 0.25) & 0x03
LimitFraction(limit) ==
    BitAnd(Trunc((Num(limit) - LimitIntegral(limit) * Deg) * 4, Deg), 3)

LimitEncode(limit) ==
    LET sign == IF Num(limit) < 0 THEN 16 ELSE 0
        integral == LimitIntegral(limit)
        frac_normal == LimitFraction(limit)
    IN  <<ByteStore(BitOr(sign, Shr(integral, 4))),
          ByteStore(BitOr(Shl(integral, 4), Shl(frac_normal, 2)))>>

(***************************************************************************)
(* __get_config (lines 61-72) and the packing of __set_config (140-150).   *)
(***************************************************************************)
GetConfigDecode(buf) ==
    [hyst_mode |-> BitAnd(Shr(buf[1], 1), 3),
     shdn |-> BitAnd(buf[1], 1) # 0,
     crit_lock |-> BitAnd(Shr(buf[2], 7), 1) # 0,
     window_lock |-> BitAnd(Shr(buf[2], 6), 1) # 0,
     irq_clear_bit |-> BitAnd(Shr(buf[2], 5), 1) # 0,
     alert |-> BitAnd(Shr(buf[2], 4), 1) # 0,
     alert_ctrl |-> BitAnd(Shr(buf[2], 3), 1) # 0,
     alert_sel |-> BitAnd(Shr(buf[2], 2), 1) # 0,
     alert_pol |-> BitAnd(Shr(buf[2], 1), 1) # 0,
     alert_mode |-> BitAnd(buf[2], 1) # 0]

\* The packing with the positions of alert_sel and alert_pol exchanged.
PackConfigSwapped(r) ==
    <<ByteStore(BitOr(Shl(r.hyst_mode.v, 1), r.shdn.v)),
      ByteStore(BitOr(Shl(r.crit_lock.v, 7),
                BitOr(Shl(r.window_lock.v, 6),
                BitOr(Shl(r.irq_clear_bit.v, 5),
                BitOr(Shl(r.alert_ctrl.v, 3),
                BitOr(Shl(r.alert_sel.v, 1),
                BitOr(Shl(r.alert_pol.v, 2), r.alert_mode.v)))))))>>

\* r: the nine resolved arguments, each an int or a bool.
PackConfig(r) ==
    <<ByteStore(BitOr(Shl(r.hyst_mode.v, 1), r.shdn.v)),
      ByteStore(BitOr(Shl(r.crit_lock.v, 7),
                BitOr(Shl(r.window_lock.v, 6),
                BitOr(Shl(r.irq_clear_bit.v, 5),
                BitOr(Shl(r.alert_ctrl.v, 3),
                BitOr(Shl(r.alert_sel.v, 2),
                BitOr(Shl(r.alert_pol.v, 1), r.alert_mode.v)))))))>>

(***************************************************************************)
(* The session object and the record of the last call made on it.          *)
(*   obj.st    "none" before MCP9808(...), "live" once __init__ returned,  *)
(*             "failed" when __init__ raised (no object exists);           *)
(*   obj.c     the attributes __get_config assigns;                        *)
(*   call.bus  the bus transactions the call issued, in order;             *)
(*   call.sent / call.back  the bytes it wrote / read back;                *)
(*   call.printed  what it printed.                                        *)
(***************************************************************************)
NoCall ==
    [op |-> "none", arg |-> PyNone, outcome |-> "none", bus |-> <<>>,
     sent |-> <<>>, back |-> <<>>, printed |-> <<>>, ret |-> 0]

Rd(reg) == <<"r", reg>>

Wr(reg) == <<"w", reg>>

\* self.__debug inside the class: the instance has no attribute of that
\* name (the flag is stored as __debug_bit, line 37), so the lookup finds
\* the method defined at line 45.
SelfDebug(o) == PyMethod

\* __debug (lines 45-47): the lines text adds to the output.
Debug(o, text) == IF PyEq(SelfDebug(o), PyBool(TRUE)) THEN <<text>> ELSE <<>>

\* The device check accepting revision 0 only.
CheckDevStrict(dev_id) == IF dev_id # <<4, 0>> THEN "Exception" ELSE "ok"

\* __check_device (lines 49-59) on the bytes read: the error it raises.
CheckMfr(mfr_id) == IF mfr_id # <<0, 84>> THEN "Exception" ELSE "ok"

CheckDev(dev_id) == IF dev_id[1] # 4 THEN "Exception" ELSE "ok"

\* The object __init__ leaves when it returns, its cache seeded from the
\* bytes buf of the configuration register, and the record of that call.
Session(debug, buf) ==
    [st |-> "live", debug_bit |-> debug, c |-> GetConfigDecode(buf)]

Opened(debug, buf, warn) ==
    [NoCall EXCEPT !.op = "__init__", !.arg = debug, !.outcome = "ok",
                   !.bus = <<Rd(REG_MFR), Rd(REG_DEV), Rd(REG_CFG)>>,
                   !.back = buf, !.printed = warn]

\* __init__ (lines 27-43).  fail: which bus transaction raises (0: none).
Construct(debug, fail, alerts) ==
    /\ obj.st = "none"
    /\ LET mfr_id == DevRead(dev, REG_MFR, 2, 0)
           dev_id == DevRead(dev, REG_DEV, 2, 0)
           warn == IF dev_id[2] # 0
                   THEN Debug([obj EXCEPT !.debug_bit = debug], "revision")
                   ELSE <<>>
           Fail(outcome, bus, printed) ==
               /\ obj' = [obj EXCEPT !.st = "failed", !.debug_bit = debug]
               /\ call' = [NoCall EXCEPT !.op = "__init__", !.arg = debug,
                                         !.outcome = outcome, !.bus = bus,
                                         !.printed = printed]
       IN  IF fail = 1 THEN Fail("OSError", <<Rd(REG_MFR)>>, <<>>)
           ELSE IF CheckMfr(mfr_id) # "ok"
           THEN Fail(CheckMfr(mfr_id), <<Rd(REG_MFR)>>, <<>>)
           ELSE IF fail = 2
           THEN Fail("OSError", <<Rd(REG_MFR), Rd(REG_DEV)>>, <<>>)
           ELSE IF CheckDev(dev_id) # "ok"
           THEN Fail(CheckDev(dev_id), <<Rd(REG_MFR), Rd(REG_DEV)>>, <<>>)
           ELSE IF fail = 3
           THEN Fail("OSError",
                     <<Rd(REG_MFR), Rd(REG_DEV), Rd(REG_CFG)>>, warn)
           ELSE \E al \in Comparator(dev, alerts) :
                \E buf \in {DevRead(dev, REG_CFG, 2, al)} :
                /\ obj' = Session(debug, buf)
                /\ call' = Opened(debug, buf, warn)
    /\ UNCHANGED <<dev, cycled>>

(***************************************************************************)
(* __set_config (lines 74-188).                                            *)
(***************************************************************************)
\* The keyword arguments a public setter passes: all None but irq_clear_bit.
NoKw ==
    [hyst_mode |-> PyNone, shdn |-> PyNone, crit_lock |-> PyNone,
     window_lock |-> PyNone, irq_clear_bit |-> PyBool(FALSE),
     alert_ctrl |-> PyNone, alert_sel |-> PyNone, alert_pol |-> PyNone,
     alert_mode |-> PyNone]

\* An argument that is None taking the power-up value of its field.
ResolveDefaults(c, kw) ==
    [f \in DOMAIN kw |->
        IF kw[f] # PyNone THEN kw[f]
        ELSE IF f = "hyst_mode" THEN PyInt(HYST_00) ELSE PyBool(FALSE)]

\* Lines 86-101: an argument that is None takes the cached value.
Resolve(c, kw) ==
    [hyst_mode |-> IF kw.hyst_mode = PyNone THEN PyInt(c.hyst_mode)
                   ELSE kw.hyst_mode,
     shdn |-> IF kw.shdn = PyNone THEN PyBool(c.shdn) ELSE kw.shdn,
     crit_lock |-> IF kw.crit_lock = PyNone THEN PyBool(c.crit_lock)
                   ELSE kw.crit_lock,
     window_lock |-> IF kw.window_lock = PyNone THEN PyBool(c.window_lock)
                     ELSE kw.window_lock,
     irq_clear_bit |-> kw.irq_clear_bit,
     alert_ctrl |-> IF kw.alert_ctrl = PyNone THEN PyBool(c.alert_ctrl)
                    ELSE kw.alert_ctrl,
     alert_sel |-> IF kw.alert_sel = PyNone THEN PyBool(c.alert_sel)
                   ELSE kw.alert_sel,
     alert_pol |-> IF kw.alert_pol = PyNone THEN PyBool(c.alert_pol)
                   ELSE kw.alert_pol,
     alert_mode |-> IF kw.alert_mode = PyNone THEN PyBool(c.alert_mode)
                    ELSE kw.alert_mode]

\* Lines 103-141: the error raised before the write, "ok" when none is.
ConfigCheck(r) ==
    IF ~InEnum(r.hyst_mode) THEN "ValueError"
    ELSE IF \/ r.shdn.t # "bool" \/ r.crit_lock.t # "bool"
            \/ r.window_lock.t # "bool" \/ r.irq_clear_bit.t # "bool"
            \/ r.alert_ctrl.t # "bool" \/ r.alert_sel.t # "bool"
            \/ r.alert_pol.t # "bool" \/ r.alert_mode.t # "bool"
    THEN "TypeError"
    ELSE IF ~IsIntegral(r.hyst_mode) THEN "TypeError"
    ELSE "ok"

\* Lines 153-188: the warnings, in the order of the checks.
ConfigWarnings(o, r) ==
    LET Differs(f) ==
            IF f = "hyst_mode" THEN ~PyEq(PyInt(o.c[f]), r[f])
            ELSE ~PyEq(PyBool(o.c[f]), r[f])
        W(f) == IF Differs(f) THEN Debug(o, f) ELSE <<>>
    IN  W("hyst_mode") \o W("shdn") \o W("crit_lock")
        \o (IF o.c.irq_clear_bit THEN Debug(o, "irq_clear_bit") ELSE <<>>)
        \o W("window_lock") \o W("alert_ctrl") \o W("alert_sel")
        \o W("alert_pol") \o W("alert_mode")

\* The cache taking the bytes the call wrote.
RefreshFromSent(o, sent, back) == [o EXCEPT !.c = GetConfigDecode(sent)]

\* Line 152: the cache after the readback of the bytes back (sent is what
\* the call had written).
Refresh(o, sent, back) == [o EXCEPT !.c = GetConfigDecode(back)]

\* What a locked device may let through of the bytes buf: only the fields
\* they change matter.
AccSets(d, buf) ==
    IF Locked(d[REG_CFG]) THEN SUBSET Changed(d[REG_CFG], buf) ELSE {{}}

\* fails: the bus transactions that may raise (1: the write, 2: the
\* readback; 0: neither does).
\* The public configuration setters (lines 235-267).
KwOf(op, a) ==
    CASE op = "set_hysteresis_mode" -> [NoKw EXCEPT !.hyst_mode = a]
      [] op = "shutdown" -> [NoKw EXCEPT !.shdn = PyNot(a)]
      [] op = "lock_crit_limit" -> [NoKw EXCEPT !.crit_lock = PyNot(a)]
      [] op = "lock_window_limit" -> [NoKw EXCEPT !.window_lock = PyNot(a)]
      [] op = "irq_clear" -> [NoKw EXCEPT !.irq_clear_bit = PyBool(TRUE)]
      [] op = "enable_alert" -> [NoKw EXCEPT !.alert_ctrl = PyNot(a)]
      [] op = "set_alert_threshold" -> [NoKw EXCEPT !.alert_sel = a]
      [] op = "set_alert_polarity" -> [NoKw EXCEPT !.alert_pol = a]
      [] op = "set_alert_mode" -> [NoKw EXCEPT !.alert_mode = a]

\* The cached field a setter names.
FieldOf(op) ==
    CASE op = "set_hysteresis_mode" -> "hyst_mode"
      [] op = "shutdown" -> "shdn"
      [] op = "lock_crit_limit" -> "crit_lock"
      [] op = "lock_window_limit" -> "window_lock"
      [] op = "irq_clear" -> "irq_clear_bit"
      [] op = "enable_alert" -> "alert_ctrl"
      [] op = "set_alert_threshold" -> "alert_sel"
      [] op = "set_alert_polarity" -> "alert_pol"
      [] op = "set_alert_mode" -> "alert_mode"

\* A public configuration setter op called with the argument a: __set_config
\* with the keyword it passes.  fails: the bus transactions that may raise
\* (1: the write, 2: the readback; 0: neither does).
SetConfig(op, a, fails, alerts) ==
    /\ obj.st = "live"
    /\ \E r \in {Resolve(obj.c, KwOf(op, a))} :
           IF ConfigCheck(r) # "ok"
           THEN /\ call' = [NoCall EXCEPT !.op = op, !.arg = a,
                                          !.outcome = ConfigCheck(r)]
                /\ UNCHANGED <<dev, obj>>
           ELSE \E buf \in {PackConfig(r)} :
                \E fail \in fails :
                IF fail = 1
                THEN /\ call' = [NoCall EXCEPT !.op = op, !.arg = a,
                                               !.outcome = "OSError",
                                               !.bus = <<Wr(REG_CFG)>>,
                                               !.sent = buf]
                     /\ UNCHANGED <<dev, obj>>
                ELSE \E acc \in AccSets(dev, buf) :
                     \E written \in {DevWrite(dev, REG_CFG, buf, acc)} :
                     IF fail = 2
                     THEN /\ call' = [NoCall EXCEPT
                                         !.op = op, !.arg = a,
                                         !.outcome = "OSError",
                                         !.bus = <<Wr(REG_CFG), Rd(REG_CFG)>>,
                                         !.sent = buf]
                          /\ dev' = written
                          /\ UNCHANGED obj
                     ELSE \E al \in Comparator(written, alerts) :
                          \E back \in {DevRead(written, REG_CFG, 2, al)} :
                          \E after \in {Refresh(obj, buf, back)} :
                          /\ call' = [NoCall EXCEPT
                                         !.op = op, !.arg = a,
                                         !.outcome = "ok",
                                         !.bus = <<Wr(REG_CFG), Rd(REG_CFG)>>,
                                         !.sent = buf, !.back = back,
                                         !.printed = ConfigWarnings(after, r)]
                          /\ dev' = written
                          /\ obj' = after
    /\ UNCHANGED cycled

\* get_alert_status (lines 253-255).
GetAlertStatus(fails, alerts) ==
    /\ obj.st = "live"
    /\ \E base \in {[NoCall EXCEPT !.op = "get_alert_status",
                                   !.bus = <<Rd(REG_CFG)>>]} :
       \E fail \in fails \cap {0, 1} :
           IF fail = 1
           THEN /\ call' = [base EXCEPT !.outcome = "OSError"]
                /\ UNCHANGED obj
           ELSE \E al \in Comparator(dev, alerts) :
                \E c \in {GetConfigDecode(DevRead(dev, REG_CFG, 2, al))} :
                /\ obj' = [obj EXCEPT !.c = c]
                /\ call' = [base EXCEPT
                               !.outcome = "ok",
                               !.back = DevRead(dev, REG_CFG, 2, al),
                               !.ret = IF c.alert THEN 1 ELSE 0]
    /\ UNCHANGED <<dev, cycled>>

\* __set_alert_limit (lines 190-233) behind set_alert_upper_limit,
\* set_alert_lower_limit and set_alert_crit_limit (lines 269-276).
LimitReg(op) ==
    CASE op = "set_alert_upper_limit" -> REG_ATU
      [] op = "set_alert_lower_limit" -> REG_ATL
      [] op = "set_alert_crit_limit" -> REG_ATC

SetAlertLimit(op, limit, fail) ==
    /\ obj.st = "live"
    /\ LET register == LimitReg(op)
           buf == LimitEncode(limit)
           range == IF LimitOutsideOperational(limit)
                    THEN Debug(obj, "range") ELSE <<>>
           base == [NoCall EXCEPT !.op = op, !.arg = limit]
       IN  IF LimitCheck(limit) # "ok"
           THEN /\ call' = [base EXCEPT !.outcome = LimitCheck(limit)]
                /\ UNCHANGED dev
           ELSE IF fail = 1
           THEN /\ call' = [base EXCEPT !.outcome = "OSError",
                                        !.bus = <<Wr(register)>>,
                                        !.sent = buf, !.printed = range]
                /\ UNCHANGED dev
           ELSE \E acc \in LimitAccSets(dev, register) :
                \E written \in {DevWrite(dev, register, buf, acc)} :
                \E check \in {DevRead(written, register, 2, 0)} :
                IF fail = 2
                THEN /\ call' = [base EXCEPT
                                    !.outcome = "OSError",
                                    !.bus = <<Wr(register), Rd(register)>>,
                                    !.sent = buf, !.printed = range]
                     /\ dev' = written
                ELSE /\ call' = [base EXCEPT
                                    !.outcome = "ok",
                                    !.bus = <<Wr(register), Rd(register)>>,
                                    !.sent = buf, !.back = check,
                                    !.printed = range \o
                                        (IF check # buf
                                         THEN Debug(obj, "limit") ELSE <<>>)]
                     /\ dev' = written
    /\ UNCHANGED <<obj, cycled>>

\* set_resolution (lines 304-319).
ResolutionCheck(resolution) ==
    IF ~InEnum(resolution) THEN "ValueError"
    ELSE IF ~IsIntegral(resolution) THEN "TypeError"
    ELSE "ok"

SetResolution(resolution, fail) ==
    /\ obj.st = "live"
    /\ LET buf == <<ByteStore(BitOr(0, BitAnd(resolution.v, 3)))>>
           written == DevWrite(dev, REG_RES, buf, {})
           check == DevRead(written, REG_RES, 1, 0)
           base == [NoCall EXCEPT !.op = "set_resolution", !.arg = resolution]
       IN  IF ResolutionCheck(resolution) # "ok"
           THEN /\ call' = [base EXCEPT !.outcome = ResolutionCheck(resolution)]
                /\ UNCHANGED dev
           ELSE IF fail = 1
           THEN /\ call' = [base EXCEPT !.outcome = "OSError",
                                        !.bus = <<Wr(REG_RES)>>, !.sent = buf]
                /\ UNCHANGED dev
           ELSE IF fail = 2
           THEN /\ call' = [base EXCEPT
                               !.outcome = "OSError",
                               !.bus = <<Wr(REG_RES), Rd(REG_RES)>>,
                               !.sent = buf]
                /\ dev' = written
           ELSE /\ call' = [base EXCEPT
                               !.outcome = "ok",
                               !.bus = <<Wr(REG_RES), Rd(REG_RES)>>,
                               !.sent = buf, !.back = check,
                               !.printed = IF check # buf
                                           THEN Debug(obj, "resolution")
                                           ELSE <<>>]
                /\ dev' = written
    /\ UNCHANGED <<obj, cycled>>

\* get_temeperature (lines 278-290) and get_alert_triggers (lines 292-302).
GetTemperature(fail) ==
    /\ obj.st = "live"
    /\ LET buf == DevRead(dev, REG_TEM, 2, 0)
           base == [NoCall EXCEPT !.op = "get_temeperature",
                                  !.bus = <<Rd(REG_TEM)>>]
       IN  IF fail = 1
           THEN call' = [base EXCEPT !.outcome = "OSError"]
           ELSE call' = [base EXCEPT !.outcome = "ok", !.back = buf,
                                     !.ret = GetTemperatureDecode(buf)]
    /\ UNCHANGED <<dev, obj, cycled>>

GetAlertTriggers(fail) ==
    /\ obj.st = "live"
    /\ LET buf == DevRead(dev, REG_TEM, 2, 0)
           t == GetAlertTriggersDecode(buf)
           base == [NoCall EXCEPT !.op = "get_alert_triggers",
                                  !.bus = <<Rd(REG_TEM)>>]
       IN  IF fail = 1
           THEN call' = [base EXCEPT !.outcome = "OSError"]
           ELSE call' = [base EXCEPT
                            !.outcome = "ok", !.back = buf,
                            !.ret = (IF t[1] THEN 4 ELSE 0)
                                    + (IF t[2] THEN 2 ELSE 0)
                                    + (IF t[3] THEN 1 ELSE 0)]
    /\ UNCHANGED <<dev, obj, cycled>>

\* The power of the sensor is cut and restored (src/test.py, sensor_reset):
\* every register returns to its power-up contents.
PowerCycle ==
    /\ obj.st = "live"
    /\ dev' = [PowerUp(dev[REG_MFR], dev[REG_DEV]) EXCEPT ![REG_TEM] = dev[REG_TEM]]
    /\ cycled' = TRUE
    /\ call' = [NoCall EXCEPT !.op = "sensor_reset"]
    /\ UNCHANGED obj

(***************************************************************************)
(* Inputs.                                                                 *)
(***************************************************************************)
\* The largest integer tried as a hysteresis mode or a resolution (the legal
\* ones are 0..3), and how many degrees beyond [-128, 127] the limits tried
\* by the encoder specification go.
MaxArg == 4

Over == 2

Fails == {0, 1, 2}

EnumArgs == {PyInt(k) : k \in 0 .. MaxArg}

BoolArgs == {PyBool(TRUE), PyBool(FALSE), PyInt(0)}

BoolSetters ==
    {"shutdown", "lock_crit_limit", "lock_window_limit", "enable_alert",
     "set_alert_threshold", "set_alert_polarity", "set_alert_mode"}

ConfigSetters == BoolSetters \cup {"set_hysteresis_mode", "irq_clear"}

LimitSetters ==
    {"set_alert_upper_limit", "set_alert_lower_limit", "set_alert_crit_limit"}

\* The limits tried on a session: 50, 130 and -200 degrees, and a bool.
LimitArgs == {PyInt(50), PyInt(130), PyInt(-200), PyBool(TRUE)}

\* The identities a device on the bus may report: the genuine bytes and
\* their neighbours, with revisions 0 .. MaxRev.
MaxRev == 2

MfrIds == {<<a, b>> : a \in {0, 84}, b \in {0, 84, 85}}

DevIds == {<<a, b>> : a \in {4, 5}, b \in 0 .. MaxRev}

(***************************************************************************)
(* The session: a sensor at power-up, no object yet.                       *)
(***************************************************************************)
Init ==
    /\ dev = PowerUp(<<0, 84>>, <<4, 0>>)
    /\ obj = [st |-> "none", debug_bit |-> PyBool(FALSE),
              c |-> GetConfigDecode(<<0, 0>>)]
    /\ call = NoCall
    /\ cycled = FALSE

\* The configuration interface of a session on a bus that delivers every
\* transfer, with a sensor whose comparator does not assert the alert.
Next ==
    \/ \E fail \in 0 .. 3 : Construct(PyBool(FALSE), fail, {0})
    \/ \E a \in EnumArgs : SetConfig("set_hysteresis_mode", a, {0}, {0})
    \/ \E op \in BoolSetters, a \in BoolArgs : SetConfig(op, a, {0}, {0})
    \/ SetConfig("irq_clear", PyNone, {0}, {0})
    \/ GetAlertStatus({0}, {0})

Spec == Init /\ [][Next]_vars

(***************************************************************************)
(* The configuration interface on a bus whose transfers may fail, with a   *)
(* sensor whose power may be cut and whose comparator may assert the       *)
(* alert: the hysteresis, shutdown, critical lock and alert enable setters.*)
(***************************************************************************)
BusSetters == {"shutdown", "lock_crit_limit", "enable_alert"}

BusHyst == {PyInt(HYST_00), PyInt(HYST_60), PyInt(MaxArg)}

NextBus ==
    \/ \E fail \in {0, 3} : Construct(PyBool(FALSE), fail, {0, 1})
    \/ \E a \in BusHyst : SetConfig("set_hysteresis_mode", a, Fails, {0, 1})
    \/ \E op \in BusSetters, a \in {PyBool(TRUE), PyBool(FALSE)} :
           SetConfig(op, a, Fails, {0, 1})
    \/ GetAlertStatus(Fails, {0, 1})
    \/ PowerCycle

SpecBus == Init /\ [][NextBus]_vars

(***************************************************************************)
(* The limit and resolution interface of a session opened with or without  *)
(* debug, with the lock and alert enable setters, on a sensor whose power  *)
(* may be cut.                                                             *)
(***************************************************************************)
LimSetters == {"lock_crit_limit", "lock_window_limit", "enable_alert"}

NextLim ==
    \/ \E debug \in {PyBool(FALSE), PyBool(TRUE)} : Construct(debug, 0, {0})
    \/ \E op \in LimSetters, a \in {PyBool(TRUE), PyBool(FALSE)} :
           SetConfig(op, a, {0}, {0})
    \/ \E op \in LimitSetters, v \in LimitArgs : SetAlertLimit(op, v, 0)
    \/ \E r \in EnumArgs, fail \in Fails : SetResolution(r, fail)
    \/ PowerCycle

SpecLim == Init /\ [][NextLim]_vars

(***************************************************************************)
(* Opening a session on whatever device answers at the address, on a bus   *)
(* whose transfers may fail.                                               *)
(***************************************************************************)
InitId ==
    /\ dev \in {PowerUp(m, d) : m \in MfrIds, d \in DevIds}
    /\ obj = [st |-> "none", debug_bit |-> PyBool(FALSE),
              c |-> GetConfigDecode(<<0, 0>>)]
    /\ call = NoCall
    /\ cycled = FALSE

NextId ==
    \/ \E debug \in {PyBool(FALSE), PyBool(TRUE)}, fail \in 0 .. 3 :
           Construct(debug, fail, {0, 1})
    \/ \E fail \in {0, 1} : GetTemperature(fail)
    \/ GetAlertStatus({0, 1}, {0, 1})

SpecId == InitId /\ [][NextId]_vars

(***************************************************************************)
(* Reading the temperature register: a session just opened on a sensor     *)
(* whose temperature register holds any two bytes.                         *)
(***************************************************************************)
Byte == 0 .. 255

InitTemp ==
    /\ dev \in {[PowerUp(<<0, 84>>, <<4, 0>>) EXCEPT ![REG_TEM] = <<b0, b1>>] :
                   b0 \in Byte, b1 \in Byte}
    /\ obj = Session(PyBool(FALSE), <<0, 0>>)
    /\ call = Opened(PyBool(FALSE), <<0, 0>>, <<>>)
    /\ cycled = FALSE

NextTemp ==
    \/ \E fail \in {0, 1} : GetTemperature(fail)
    \/ \E fail \in {0, 1} : GetAlertTriggers(fail)

SpecTemp == InitTemp /\ [][NextTemp]_vars

(***************************************************************************)
(* Encoding a limit: a script that, on a session just opened, makes one    *)
(* call of a limit setter with the value held in call.arg.                 *)
(***************************************************************************)
EncLimits ==
    {PyFloat(n) : n \in (-128 - Over) * Deg .. (127 + Over) * Deg}
    \cup {PyInt(k) : k \in (-128 - Over) .. (127 + Over)}
    \cup {PyBool(TRUE), PyNone}

InitEnc ==
    /\ dev = PowerUp(<<0, 84>>, <<4, 0>>)
    /\ obj = Session(PyBool(FALSE), <<0, 0>>)
    /\ call \in {[NoCall EXCEPT !.arg = v] : v \in EncLimits}
    /\ cycled = FALSE

NextEnc ==
    \E op \in LimitSetters, fail \in Fails :
        call.op = "none" /\ SetAlertLimit(op, call.arg, fail)

SpecEnc == InitEnc /\ [][NextEnc]_vars

(***************************************************************************)
(* Claims.                                                                 *)
(***************************************************************************)
\* The legal domain of the argument of each setter.
InDomain(op, a) ==
    CASE op = "set_hysteresis_mode" -> a.t = "int" /\ a.v \in HYST_00 .. HYST_60
      [] op = "set_resolution" -> a.t = "int" /\ a.v \in RES_0_5 .. RES_0_0625
      [] op \in BoolSetters -> a.t = "bool"
      [] op \in LimitSetters ->
            /\ a.t \in {"int", "float"}
            /\ -128 * Deg <= Num(a) /\ Num(a) <= 127 * Deg
      [] OTHER -> TRUE

\* The cached settable fields are the decode of the device's register.
Synced(d, o) ==
    \A f \in Settable :
        o.c[f] = GetConfigDecode(DevRead(d, REG_CFG, 2, 0))[f]

\* C1: for every limit v in [-128, 127], the two bytes a limit setter
\* writes, decoded with the layout get_temeperature uses, give a value
\* within 0.25 degrees of v.
C1_RoundTrip ==
    (call.op \in LimitSetters /\ call.sent # <<>>) =>
        LET back == GetTemperatureDecode(call.sent)
            v == Num(call.arg)
        IN  back - v <= Deg \div 4 /\ v - back <= Deg \div 4

\* C3: a single-field configuration setter called with a valid value, on a
\* device that accepts the write, changes only the cached field it names:
\* each other cached configuration field keeps the value it had before.
C3_Frame ==
    [][(/\ call'.op \in BoolSetters \cup {"set_hysteresis_mode"}
        /\ InDomain(call'.op, call'.arg)
        /\ call'.outcome = "ok"
        /\ Changed(call'.back, call'.sent) = {})
       => \A f \in (Settable \cup {"irq_clear_bit"}) \ {FieldOf(call'.op)} :
              obj'.c[f] = obj.c[f]]_vars

\* The hysteresis was set on a session whose other fields are not at their
\* power-up values, and they are still not.
C3_Witness ==
    /\ call.op = "set_hysteresis_mode" /\ call.outcome = "ok"
    /\ call.arg = PyInt(HYST_30) /\ obj.c.hyst_mode = HYST_30
    /\ obj.c.shdn /\ obj.c.alert_pol /\ obj.c.alert_ctrl /\ obj.c.alert_mode

\* C4 (amended): on a live session whose device has not been power-cycled,
\* after __init__, get_alert_status or a configuration setter has returned
\* normally the cached settable fields equal the decode of the device's
\* configuration register, and a call that ends otherwise than with a
\* transport error at the readback keeps them equal if they were.
C4_CacheFollows ==
    [][(obj'.st = "live" /\ ~cycled') =>
          /\ (call'.outcome = "ok" /\ Rd(REG_CFG) \in
                  {call'.bus[i] : i \in DOMAIN call'.bus})
                => Synced(dev', obj')
          /\ (/\ obj.st = "live" /\ Synced(dev, obj)
              /\ ~(call'.outcome = "OSError"
                    /\ call'.bus = <<Wr(REG_CFG), Rd(REG_CFG)>>))
                => Synced(dev', obj')]_vars

\* enable_alert returned on a device that refused a change it asked for,
\* and the cache shows what the device kept.
C4_Witness ==
    /\ obj.st = "live" /\ ~cycled
    /\ call.op = "enable_alert" /\ call.outcome = "ok"
    /\ Changed(call.back, call.sent) # {}
    /\ Synced(dev, obj)

\* C4 as stated: whenever no call is in flight on a live session whose
\* device has not been power-cycled, the cached settable fields equal the
\* decode of the device's configuration register.
C4_Original == (obj.st = "live" /\ ~cycled) => Synced(dev, obj)

\* C5 as stated: on a debug session, whenever the readback after a write
\* differs from what was requested, the call returns without raising and
\* the divergence is printed.
C5_Reported ==
    (/\ obj.st = "live" /\ obj.debug_bit = PyBool(TRUE)
     /\ call.back # <<>>
     /\ \/ call.op \in LimitSetters \cup {"set_resolution"}
              /\ call.back # call.sent
        \/ call.op \in ConfigSetters
              /\ Changed(call.back, call.sent) # {})
    => call.outcome = "ok" /\ call.printed # <<>>

\* C6: once a lock bit is set and while the device is not power-cycled,
\* every later setter call with a legal argument, an attempt to unlock
\* included, is accepted (it returns normally whenever the bus delivers its
\* transfers), and after each call the cached lock is still True and the
\* device's bit still set.
C6_LockHolds ==
    [][\A lock \in {"crit_lock", "window_lock"} :
          (/\ obj.st = "live" /\ obj.c[lock] /\ ~cycled'
           /\ call'.op \in ConfigSetters \cup LimitSetters \cup {"set_resolution"})
          => /\ (InDomain(call'.op, call'.arg) /\ call'.outcome # "OSError")
                    => call'.outcome = "ok"
             /\ obj'.c[lock]
             /\ Field(dev'[REG_CFG], lock) # 0]_vars

\* lock_crit_limit(unlock=True) returned on a locked session: it had asked
\* for the bit to be cleared and read it back set.
C6_Witness ==
    /\ call.op = "lock_crit_limit" /\ call.arg = PyBool(TRUE)
    /\ call.outcome = "ok"
    /\ Field(call.sent, "crit_lock") = 0
    /\ Field(call.back, "crit_lock") # 0
    /\ obj.c.crit_lock /\ ~cycled

\* C7 as stated: a setter called with a value outside its legal domain
\* fails with a validation error before any bus transfer.
C7_Rejected ==
    (/\ call.op \in ConfigSetters \cup LimitSetters \cup {"set_resolution"}
     /\ ~InDomain(call.op, call.arg))
    => call.outcome \in {"ValueError", "TypeError"} /\ call.bus = <<>>

\* C8: when the bus reads succeed, constructing the session succeeds if and
\* only if the manufacturer register reads 0x00, 0x54 and the first byte of
\* the device register is 4, whatever the revision byte; on success the
\* configuration register has been read exactly once, and on an identity
\* failure no configuration read and no write has been issued.
C8_Identity ==
    (call.op = "__init__" /\ call.outcome # "OSError") =>
        LET genuine == dev[REG_MFR] = <<0, 84>> /\ dev[REG_DEV][1] = 4
            reads == {i \in DOMAIN call.bus : call.bus[i] = Rd(REG_CFG)}
            writes == {i \in DOMAIN call.bus : call.bus[i][1] = "w"}
        IN  /\ call.outcome = "ok" <=> genuine
            /\ call.outcome = "ok" <=> obj.st = "live"
            /\ call.outcome = "ok" =>
                   Cardinality(reads) = 1 /\ writes = {}
                   /\ obj.c = GetConfigDecode(call.back)
            /\ call.outcome # "ok" =>
                   call.outcome = "Exception" /\ reads = {} /\ writes = {}

\* A session opened on a genuine device of a revision other than 0.
C8_Witness ==
    /\ call.op = "__init__" /\ call.outcome = "ok"
    /\ dev[REG_DEV][2] # 0
    /\ obj.st = "live"

\* C9 (amended): the bytes __set_config packs from a valid configuration,
\* unpacked as __get_config unpacks them, reproduce every field, the
\* interrupt clear bit as sent included, with the alert status false; it is
\* in the bytes the device returns that the interrupt clear bit is false.
C9_RoundTrip ==
    [][(call'.op \in ConfigSetters /\ call'.sent # <<>>) =>
          \A r \in {Resolve(obj.c, KwOf(call'.op, call'.arg))} :
          \A d \in {GetConfigDecode(call'.sent)} :
              /\ d.hyst_mode = r.hyst_mode.v
              /\ \A f \in (Settable \cup {"irq_clear_bit"}) \ {"hyst_mode"} :
                     d[f] = (r[f] = PyBool(TRUE))
              /\ ~d.alert
              /\ call'.back # <<>> =>
                     ~GetConfigDecode(call'.back).irq_clear_bit]_vars

\* irq_clear() returned on a session with non-default fields: the bytes it
\* sent decode with the interrupt clear bit true, the cache holds false.
C9_Witness ==
    /\ call.op = "irq_clear" /\ call.outcome = "ok"
    /\ GetConfigDecode(call.sent).irq_clear_bit
    /\ GetConfigDecode(call.sent).hyst_mode = HYST_60
    /\ GetConfigDecode(call.sent).alert_sel
    /\ ~GetConfigDecode(call.sent).alert_pol
    /\ ~obj.c.irq_clear_bit

\* C9 as stated: the packed bytes unpack to every field sent, except the
\* interrupt clear bit, which unpacks to false whatever was sent.
C9_Original ==
    [][(call'.op \in ConfigSetters /\ call'.sent # <<>>) =>
          \A r \in {Resolve(obj.c, KwOf(call'.op, call'.arg))} :
          \A d \in {GetConfigDecode(call'.sent)} :
              /\ d.hyst_mode = r.hyst_mode.v
              /\ \A f \in Settable \ {"hyst_mode"} :
                     d[f] = (r[f] = PyBool(TRUE))
              /\ ~d.irq_clear_bit]_vars

\* C10: encoding the limit -0.25 gives a first byte with the sign bit set,
\* the integral byte 0xFF and the fraction bits 11: the bytes written are
\* 0x1F, 0xFC.
C10_Bytes ==
    (call.op \in LimitSetters /\ call.arg = PyFloat(-4) /\ call.sent # <<>>) =>
        /\ LimitIntegral(call.arg) = 255
        /\ LimitFraction(call.arg) = 3
        /\ call.sent[1] \div 16 = 1
        /\ call.sent = <<31, 252>>

C10_Witness ==
    /\ call.op = "set_alert_crit_limit" /\ call.outcome = "ok"
    /\ call.arg = PyFloat(-4)
    /\ dev[REG_ATC] = call.sent

\* C10 as stated: the bytes written for -0.25 are 0x1F, 0xF4.
C10_Original ==
    (call.op \in LimitSetters /\ call.arg = PyFloat(-4) /\ call.sent # <<>>) =>
        call.sent = <<31, 244>>

\* C2: for every two bytes of the temperature register, get_temeperature
\* returns exactly the low 13 bits read as a two's-complement number of
\* sixteenths of a degree, whatever the flag bits 15..13 are: a result in
\* [-256, 0) when bit 12 is set and in [0, 256) when it is clear.
C2_TemperatureExact ==
    (call.op = "get_temeperature" /\ call.outcome = "ok") =>
        LET raw == (dev[REG_TEM][1] % 32) * 256 + dev[REG_TEM][2]
        IN  /\ call.ret = IF raw >= 4096 THEN raw - 8192 ELSE raw
            /\ raw >= 4096 => (-256 * Deg <= call.ret /\ call.ret < 0)
            /\ raw < 4096 => (0 <= call.ret /\ call.ret < 256 * Deg)

\* A negative reading taken with the three flag bits set.
C2_Witness ==
    /\ call.op = "get_temeperature" /\ call.outcome = "ok"
    /\ call.back[1] >= 240
    /\ call.ret < 0

============================================================================
